---- MODULE Spec2Model ----
(***************************************************************************)
(* LLM gateway of the finance chatbot.                                     *)
(*                                                                         *)
(*   src/src/core/llm_key_manager.py   LLMKeyManager  (credential pool)    *)
(*   src/src/services/gemini_client.py LLMService     (model gateway)      *)
(*                                                                         *)
(* The specifications share the variables.  SpecPool drives the public     *)
(* operations of one LLMKeyManager directly.  Spec runs requests of        *)
(* LLMService.generate_content_with_tools against a nondeterministic       *)
(* upstream, each step being the code between two suspension points of     *)
(* the event loop; SpecConc runs them against a semaphore they contend     *)
(* for.  SpecChat runs the chat handlers of src/src/backend, SpecStream    *)
(* the streaming chat of src/src/api/v1 over the session registry of the   *)
(* design.                                                                 *)
(***************************************************************************)
EXTENDS Integers, Sequences, FiniteSets, TLC

(***************************************************************************)
(* Bounds of the model and configuration of the program.                   *)
(***************************************************************************)
\* number of API keys found in the environment (len(self.keys))
NKeys == 2
\* the clock (time.time()) starts at 1 and is advanced by Tick up to
\* MaxTime: far enough for a key marked at the start to be past its
\* cooldown (now > 1 + rate_limit_duration) while calls are still running
MaxTime == 3
\* largest duration handed to mark_key_rate_limited by the pool driver
MaxDuration == 2
\* number of pool operations the pool driver performs in one run
MaxOps == 4
\* backup models configured (len(self.backup_models))
NBackup == 1
\* deepest nesting of generate_content_with_tools inside itself
MaxDepth == 2
\* most upstream attempts one call makes, nested calls included
MaxAttempts == 7
\* self.rate_limit_duration, in ticks of the model's clock
rate_limit_duration == 1
\* largest capacity of self.api_semaphore (max_concurrent_requests)
max_concurrent_requests == 2
\* most upstream attempts of one call when several calls run together
MaxConcAttempts == 1
\* services made by get_llm_service_async while the calls run
MaxServices == 1
\* chat requests in one run, and calls of clear_chat
NChats == 2
MaxClears == 1
\* most fragments with text the gateway yields to one chat-stream request
MaxFragments == 1

\* LLMService.__init__ defaults and the local max_empty_chunks
max_retries == 3
retry_delay == 1
max_empty_chunks == 3
\* the capacity of the semaphore of a service made without the argument
default_max_concurrent_requests == 20

\* the upstream's streams have up to MaxChunks fragments: enough to pass the
\* threshold of empty fragments, before or after a fragment with text
MaxChunks == max_empty_chunks + 1

(***************************************************************************)
(* State.                                                                  *)
(***************************************************************************)
VARIABLES
    \* ---- LLMKeyManager ----
    keys,                \* self.keys: the keys are 1 .. n, in list order
    now,                 \* time.time()
    key_usage_count,     \* self.key_usage_count
    last_used_time,      \* self.last_used_time
    rate_limited_until,  \* self.rate_limited_until
    \* ---- observer of the pool driver ----
    lastCall,            \* the last pool operation: its arguments, the pool
                         \* state it ran on, and what it returned
    opCount,             \* number of pool operations performed by the driver
    \* ---- LLMService ----
    reqs,                \* the calls of generate_content_with_tools in progress
    stack,               \* per call: the frames of the generator and of the
                         \* generators it runs inside itself, innermost last
    capacity,            \* the value self.api_semaphore was made with
    default_llm_service, \* the service get_llm_service_async hands out:
                         \* how many it has made since the first, the key
                         \* of the client and the free permits of the
                         \* semaphore of the latest
    permits,             \* free permits of self.api_semaphore
    client_key,          \* self.current_key, the key of self.client
    out,                 \* per call: what the consumer has received
                         \* (n > 0: a text fragment of the n-th upstream
                         \* attempt; 0: None)
    status,              \* per call: "running", "returned" or "raised"
    \* ---- observer of the gateway ----
    obs,                 \* per call: the upstream attempts made, the keys
                         \* marked, what ended the sequence
    \* ---- chat sessions (backend/services/chatbot.py) ----
    services,            \* the ChatbotService objects made so far, in order
                         \* of construction: services[1] is
                         \* default_chatbot_service
    chatbot_sessions,    \* the dictionary: session id -> index in services
    chats,               \* per chat request: whether it was handled, the
                         \* session id it came with, the service it was
                         \* given, how it ended
    lastClear,           \* observer: the last clear_chat, its argument and
                         \* its answer
    \* ---- SessionRegistry and StreamCoordinator ----
    registry,            \* SessionRegistry: per session id, whether a
                         \* ChatSession exists for it and its turn list
    handles,             \* per chat-stream request: where its handle is, its
                         \* session, the history it snapshot, the fragments
                         \* forwarded and accumulated, how it ended
    lastReset            \* observer: the last clear-chat, its argument, its
                         \* answer, the turns the session held when it ran
                         \* and the turns the other sessions held

poolVars == <<keys, now, key_usage_count, last_used_time, rate_limited_until>>
driverVars == <<lastCall, opCount>>
gwVars == <<reqs, stack, permits, client_key, out, status, obs>>
\* what neither the pool nor a call of the gateway changes
chatVars == <<services, chatbot_sessions, chats, lastClear>>
streamVars == <<registry, handles, lastReset>>
otherVars == <<capacity, default_llm_service, chatVars, streamVars>>
vars == <<poolVars, driverVars, gwVars, otherVars>>

(***************************************************************************)
(* Chat sessions: get_chatbot_service and ChatbotService                   *)
(* (src/src/backend/services/chatbot.py), chat and clear_chat              *)
(* (src/src/backend/api/v1/chat_api.py, which imports the registry of      *)
(* that module, line 15).  The copies of the service in                    *)
(* src/src/services/chat_service.py and src/src/services/chatbot.py do not *)
(* load: the default of their constructor, LLMConfig.default_model (lines  *)
(* 23 and 21), is an attribute of the instances of LLMConfig only          *)
(* (core/config.py, line 62), so the def raises AttributeError and neither *)
(* default_chatbot_service nor get_chatbot_service comes to exist.         *)
(***************************************************************************)

\* str(uuid.uuid4()), the session id default_chatbot_service gives itself
\* when the module is loaded (lines 33 and 206)
DefaultId == "uuid0"

\* the session ids a request may come with; "" is no id: None and the empty
\* string are both "not session_id" (line 226)
SessionIds == {"", "s1", "s2", DefaultId}

\* ChatbotService.__init__ (lines 24-39); turns is an observer, the
\* responses appended since the history was last empty
NewService(session_id) ==
    [session_id |-> session_id, conversation_history |-> <<>>, turns |-> 0]

NoClear == [n |-> 0, session_id |-> "", status |-> ""]

\* the ids the SessionRegistry generates for the requests that come with
\* none, one for each request
GeneratedIds == <<"g1", "g2", "g3">>

\* the session ids a chat-stream request or a clear-chat may come with ("" is
\* no id; a generated id is not told to the client), and the ids a
\* ChatSession may have
SuppliedIds == {"", "s1", "s2"}
RegistryIds ==
    (SuppliedIds \ {""}) \cup {GeneratedIds[r] : r \in 1 .. NChats}

\* a registry without sessions
NoSessions == [id \in RegistryIds |-> [exists |-> FALSE, turns |-> <<>>]]

NoReset == [n |-> 0, session_id |-> "", found |-> FALSE, status |-> "",
            emptied |-> 0, others |-> 0]

\* nothing has come in over chat-stream or clear-chat
StreamIdle ==
    /\ registry = NoSessions
    /\ handles = <<>>
    /\ lastReset = NoReset

\* the module just loaded: the default service, no session, no request
ChatIdle ==
    /\ services = <<NewService(DefaultId)>>
    /\ chatbot_sessions = [id \in SessionIds \ {""} |-> 0]
    /\ chats = <<>>
    /\ lastClear = NoClear
    /\ StreamIdle

(***************************************************************************)
(* LLMKeyManager                                                           *)
(***************************************************************************)

\* __init__: the three dictionaries start at 0 for every key
InitPool(n) ==
    /\ keys = 1 .. n
    /\ now = 1
    /\ key_usage_count = [k \in 1 .. n |-> 0]
    /\ last_used_time = [k \in 1 .. n |-> 0]
    /\ rate_limited_until = [k \in 1 .. n |-> 0]

\* [k for k in self.keys if current_time > self.rate_limited_until[k]]
AvailableKeys(ks, t, until) == {k \in ks : t > until[k]}

\* mutant: the fallback takes the key that recovers last
SoonestKey_Latest(ks, until) ==
    CHOOSE k \in ks : \A j \in ks : until[k] >= until[j]

\* min(self.rate_limited_until.items(), key=lambda x: x[1])[0]: the first key,
\* in dictionary (= list) order, among those with the least expiry
SoonestKey(ks, until) ==
    CHOOSE k \in ks : \A j \in ks :
        until[k] < until[j] \/ (until[k] = until[j] /\ k <= j)

\* mutant: no fallback when every key is cooling down
RandomKeyChoices_NoFallback(ks, t, until) == AvailableKeys(ks, t, until)

\* mutant: the cooldowns are not looked at
RandomKeyChoices_IgnoresCooldown(ks, t, until) == ks

\* get_random_key: the keys the call may return; the empty set when it raises
\* (no keys, or nothing to choose from)
RandomKeyChoices(ks, t, until) ==
    IF ks = {} THEN {}
    ELSE IF AvailableKeys(ks, t, until) = {} THEN {SoonestKey(ks, until)}
    ELSE AvailableKeys(ks, t, until)

\* mutant: the usage counts are compared the wrong way round
LeastUsedChoice_MostUsed(ks, t, until, usage) ==
    IF ks = {} THEN {}
    ELSE IF AvailableKeys(ks, t, until) = {} THEN {SoonestKey(ks, until)}
    ELSE {CHOOSE k \in AvailableKeys(ks, t, until) :
            \A j \in AvailableKeys(ks, t, until) :
                usage[k] > usage[j] \/ (usage[k] = usage[j] /\ k <= j)}

\* get_least_used_key: min() keeps the first least-used key of available_keys
LeastUsedChoice(ks, t, until, usage) ==
    IF ks = {} THEN {}
    ELSE IF AvailableKeys(ks, t, until) = {} THEN {SoonestKey(ks, until)}
    ELSE {CHOOSE k \in AvailableKeys(ks, t, until) :
            \A j \in AvailableKeys(ks, t, until) :
                usage[k] < usage[j] \/ (usage[k] = usage[j] /\ k <= j)}

\* get_least_recently_used_key: min() keeps the first oldest key
LeastRecentChoice(ks, t, until, used) ==
    IF ks = {} THEN {}
    ELSE IF AvailableKeys(ks, t, until) = {} THEN {SoonestKey(ks, until)}
    ELSE {CHOOSE k \in AvailableKeys(ks, t, until) :
            \A j \in AvailableKeys(ks, t, until) :
                used[k] < used[j] \/ (used[k] = used[j] /\ k <= j)}

\* mutant: the use is counted for every key
TrackUsage_CountsAll(k) ==
    /\ key_usage_count' = [j \in DOMAIN key_usage_count |->
                              key_usage_count[j] + 1]
    /\ last_used_time' = [last_used_time EXCEPT ![k] = now]

\* "Update usage tracking": the two assignments that end every selection
TrackUsage(k) ==
    /\ key_usage_count' = [key_usage_count EXCEPT ![k] = @ + 1]
    /\ last_used_time' = [last_used_time EXCEPT ![k] = now]

\* mark_key_rate_limited: self.rate_limited_until[key] = current_time + duration,
\* for a key of the pool; nothing for any other key
MarkedUntil(until, k, t, d) ==
    IF k \in DOMAIN until THEN [until EXCEPT ![k] = t + d] ELSE until

\* get_key_stats: the dictionary returned
KeyStats(ks, t, until, usage) ==
    [total_keys |-> Cardinality(ks),
     available_keys |-> Cardinality({k \in ks : t > until[k]}),
     usage_counts |-> usage,
     rate_limited_keys |-> {k \in DOMAIN until : until[k] > t}]

NoStats == [total_keys |-> 0, available_keys |-> 0, usage_counts |-> <<>>,
            rate_limited_keys |-> {}]

Call(op, k, raised, d, stats) ==
    [op |-> op, key |-> k, raised |-> raised, duration |-> d, time |-> now,
     until |-> rate_limited_until, usage |-> key_usage_count,
     used |-> last_used_time, stats |-> stats]

(***************************************************************************)
(* The pool driver: the public operations of LLMKeyManager, called in any  *)
(* order, at most MaxOps of them, while the clock advances.                *)
(***************************************************************************)

\* The clock advances.  Only the operations of the pool read it, so a tick
\* is taken when one of them can come next: the driver has operations left,
\* or a call is about to select a key (line 187) or to mark one (line 107).
Tick ==
    /\ now < MaxTime
    /\ opCount < MaxOps
    /\ reqs # {} =>
         \E r \in reqs : /\ status[r] = "running"
                         /\ stack[r][Len(stack[r])].pc \in {"acquire", "handler"}
    /\ now' = now + 1
    /\ UNCHANGED <<keys, key_usage_count, last_used_time, rate_limited_until,
                   driverVars, gwVars, otherVars>>

\* a selection that found `choices`: it raises when there is none, else it
\* returns one of them and tracks its use
Selection(op, choices) ==
    /\ opCount < MaxOps
    /\ opCount' = opCount + 1
    /\ IF choices = {}
       THEN /\ lastCall' = Call(op, 0, TRUE, 0, NoStats)
            /\ UNCHANGED <<key_usage_count, last_used_time>>
       ELSE \E k \in choices :
            /\ TrackUsage(k)
            /\ lastCall' = Call(op, k, FALSE, 0, NoStats)
    /\ UNCHANGED <<keys, now, rate_limited_until, gwVars, otherVars>>

GetRandomKey ==
    Selection("get_random_key", RandomKeyChoices(keys, now, rate_limited_until))

GetLeastUsedKey ==
    Selection("get_least_used_key",
              LeastUsedChoice(keys, now, rate_limited_until, key_usage_count))

GetLeastRecentlyUsedKey ==
    Selection("get_least_recently_used_key",
              LeastRecentChoice(keys, now, rate_limited_until, last_used_time))

\* mark_key_rate_limited(key, duration), also for a key the pool does not hold
MarkKeyRateLimited ==
    /\ opCount < MaxOps
    /\ \E k \in 1 .. NKeys, d \in 1 .. MaxDuration :
        /\ rate_limited_until' = MarkedUntil(rate_limited_until, k, now, d)
        /\ lastCall' = Call("mark_key_rate_limited", k, FALSE, d, NoStats)
    /\ opCount' = opCount + 1
    /\ UNCHANGED <<keys, now, key_usage_count, last_used_time, gwVars, otherVars>>

GetKeyStats ==
    /\ opCount < MaxOps
    /\ lastCall' = Call("get_key_stats", 0, FALSE, 0,
                        KeyStats(keys, now, rate_limited_until, key_usage_count))
    /\ opCount' = opCount + 1
    /\ UNCHANGED <<poolVars, gwVars, otherVars>>

\* reset_usage_stats: only the usage counts go back to 0
ResetUsageStats ==
    /\ opCount < MaxOps
    /\ key_usage_count' = [k \in keys |-> 0]
    /\ lastCall' = Call("reset_usage_stats", 0, FALSE, 0, NoStats)
    /\ opCount' = opCount + 1
    /\ UNCHANGED <<keys, now, last_used_time, rate_limited_until, gwVars, otherVars>>

NoCall ==
    [op |-> "none", key |-> 0, raised |-> FALSE, duration |-> 0, time |-> 0,
     until |-> <<>>, usage |-> <<>>, used |-> <<>>, stats |-> NoStats]

\* default_llm_service while it is the service the calls of the model
\* run on, whose client and semaphore are client_key and permits
FirstService ==
    [made |-> 0, api_key_prefix |-> "GEMINI_API_KEY", client_key |-> 0,
     permits |-> 0]

\* no call of generate_content_with_tools is in progress
GatewayIdle ==
    /\ reqs = {}
    /\ stack = <<>>
    /\ capacity = max_concurrent_requests
    /\ default_llm_service = FirstService
    /\ permits = capacity
    /\ client_key = 0
    /\ out = <<>>
    /\ status = <<>>
    /\ obs = <<>>
    /\ ChatIdle

\* a pool of 1 .. NKeys keys, just constructed
InitPoolDriver ==
    /\ \E n \in 1 .. NKeys : InitPool(n)
    /\ lastCall = NoCall
    /\ opCount = 0
    /\ GatewayIdle

NextPool ==
    \/ Tick
    \/ GetRandomKey
    \/ GetLeastUsedKey
    \/ GetLeastRecentlyUsedKey
    \/ MarkKeyRateLimited
    \/ GetKeyStats
    \/ ResetUsageStats

SpecPool == InitPoolDriver /\ [][NextPool]_vars

(***************************************************************************)
(* LLMService                                                              *)
(*                                                                         *)
(* A frame is one activation of generate_content_with_tools.  Its pc is    *)
(* the suspension point it waits at:                                       *)
(*   "acquire"  async with self.api_semaphore       (line 183)             *)
(*   "tool"     await tool(...)                     (line 313)             *)
(*   "handler"  async with self.api_semaphore       (line 233)             *)
(*   "sleep"    await asyncio.sleep(delay)          (line 124)             *)
(*   "stream"   between two fragments of the stream (lines 250-269)        *)
(*   "yield"    yield chunk_text                    (line 256)             *)
(*   "yield_none"  yield None                       (lines 242, 285, 299)  *)
(*   "recurse"  async for ... in the nested call    (line 289)             *)
(*   "done"     the generator has ended                                    *)
(***************************************************************************)

\* the models of the chain: 0 is self.model_name, i > 0 is backup_models[i-1]
ChainLen == NBackup + 1

\* names the model may ask for, and operation_tools
ToolNames == {"lookupPrice", "unknownTool"}
Registered == {"lookupPrice"}

\* a tool-resolution response asks for up to one call per name, in any order
\* and with repetition
MaxCalls == Cardinality(ToolNames)

\* the function calls of one tool-resolution response
CallLists == UNION {[1 .. n -> ToolNames] : n \in 0 .. MaxCalls}

Pow2(n) == IF n <= 0 THEN 1 ELSE 2 ^ n

\* the locals of generate_content_with_tools at entry (lines 170-175)
NewFrame ==
    [pc |-> "acquire", retry_count |-> 0, model_index |-> 0,
     current_key |-> 0, empty_chunk_count |-> 0,
     has_yielded_content |-> FALSE, contents |-> <<>>, calls |-> <<>>,
     call_idx |-> 0, delay |-> 0,
     \* observers: the number of the attempt that opened the stream, the
     \* marks made when it was opened, the fragments read, how it ended
     attempt |-> 0, marks_open |-> 0, chunks |-> <<>>, ended |-> "",
     \* observer: the parts of the response whose tool raised
     failed |-> {},
     \* observer: the key of self.client when the frame's latest upstream
     \* call was made (lines 208 and 223)
     call_key |-> 0]

NewObs ==
    [attempts |-> <<>>, marks |-> 0, rl_only |-> TRUE, cause |-> "",
     exhausted |-> FALSE]

Depth(r) == Len(stack[r])
Top(r) == stack[r][Len(stack[r])]

\* _handle_rate_limit after the key is marked (lines 109-126): raise, or the
\* delay slept (0: none) and the tuple returned
HandleRateLimit(retry_count, model_index) ==
    IF retry_count >= max_retries
    THEN IF model_index + 1 >= NBackup + 1
         THEN [raises |-> TRUE, delay |-> 0,
               retry_count |-> 0, model_index |-> model_index + 1]
         ELSE [raises |-> FALSE, delay |-> 0,
               retry_count |-> 0 + 1, model_index |-> model_index + 1]
    ELSE [raises |-> FALSE, delay |-> retry_delay * Pow2(retry_count),
          retry_count |-> retry_count + 1, model_index |-> model_index]

\* mutant: the stream is abandoned one empty fragment early
EmptyChunkGuard_OneEarly(empty_chunk_count, has_yielded_content) ==
    empty_chunk_count >= max_empty_chunks - 1 /\ ~has_yielded_content

\* mutant: text already yielded does not stop the guard
EmptyChunkGuard_IgnoresYield(empty_chunk_count, has_yielded_content) ==
    empty_chunk_count >= max_empty_chunks

\* the test of lines 264 and 272
EmptyChunkGuard(empty_chunk_count, has_yielded_content) ==
    empty_chunk_count >= max_empty_chunks /\ ~has_yielded_content

\* mutant: the test of line 283 is missing
EmptyStreamRetry_NeverGivesUp(retry_count, model_index) ==
    IF retry_count + 1 >= max_retries
    THEN [retry_count |-> 0, model_index |-> model_index + 1,
          gives_up |-> FALSE]
    ELSE [retry_count |-> retry_count + 1, model_index |-> model_index,
          gives_up |-> FALSE]

\* lines 275-286: the counters after an abandoned stream, and whether the
\* generator gives up
EmptyStreamRetry(retry_count, model_index) ==
    IF retry_count + 1 >= max_retries
    THEN [retry_count |-> 0, model_index |-> model_index + 1,
          gives_up |-> model_index + 1 >= NBackup + 1]
    ELSE [retry_count |-> retry_count + 1, model_index |-> model_index,
          gives_up |-> FALSE]

\* lines 289-293: the nested call is made with the prompt, the system
\* instruction and the tools only; its counters are those of a new call
NestedFrame(retry_count, model_index) == NewFrame

\* mutant: the first unknown tool ends the loop over the parts
NextKnown_StopsAtUnknown(calls, from) ==
    IF from > Len(calls) THEN Len(calls) + 1
    ELSE IF calls[from] \in Registered THEN from
    ELSE Len(calls) + 1

\* the first i >= from with calls[i] in operation_tools (line 306), or
\* Len(calls) + 1: the calls before it are skipped (lines 307-309)
RECURSIVE NextKnown(_, _)
NextKnown(calls, from) ==
    IF from > Len(calls) THEN Len(calls) + 1
    ELSE IF calls[from] \in Registered THEN from
    ELSE NextKnown(calls, from + 1)

\* mutant: the function response is appended before the function call
WithToolResult_ResponseFirst(contents, name) ==
    contents \o <<[role |-> "user", kind |-> "function_response", name |-> name],
                  [role |-> "model", kind |-> "function_call", name |-> name]>>

\* lines 316-324: the function call and the function response appended
WithToolResult(contents, name) ==
    contents \o <<[role |-> "model", kind |-> "function_call", name |-> name],
                  [role |-> "user", kind |-> "function_response", name |-> name]>>

\* mutant: the function call is appended before the tool is awaited
ToolOutcome_KeepsCall(contents, name, ok) ==
    IF ok THEN WithToolResult(contents, name)
    ELSE Append(contents,
                [role |-> "model", kind |-> "function_call", name |-> name])

\* lines 311-326: contents after the tool named `name` returned (ok) or
\* raised (the exception is logged, nothing is appended)
ToolOutcome(contents, name, ok) ==
    IF ok THEN WithToolResult(contents, name) ELSE contents

\* line 194
InitialContents == <<[role |-> "user", kind |-> "text", name |-> ""]>>

SetTop(r, f) == [stack EXCEPT ![r] = [@ EXCEPT ![Len(@)] = f]]

\* The innermost generator is at its end: "return" (it runs off its end),
\* "none" (it yields None, then returns) or "raise" (an exception leaves
\* it).  An enclosing generator forwards only text (lines 294-295): it
\* drops the None of the nested one and asks it again at once, and it turns
\* an exception of the nested one into a None of its own (lines 297-299).
\* A None of the outermost generator goes to the consumer, and the
\* generator stays suspended at that yield until the consumer asks again.
End(r, f, o, how) ==
    LET d == Depth(r)
        sentinel == (how = "none" /\ d = 1) \/ (how = "raise" /\ d = 2)
    IN /\ stack' = [stack EXCEPT ![r] =
                      [i \in 1 .. d |->
                         [(IF i = d THEN f ELSE stack[r][i]) EXCEPT !.pc =
                            IF sentinel /\ i = 1 THEN "yield_none"
                            ELSE "done"]]]
       /\ out' = [out EXCEPT ![r] = IF sentinel THEN Append(@, 0) ELSE @]
       /\ status' = [status EXCEPT ![r] =
                      IF sentinel THEN "running"
                      ELSE IF how = "raise" /\ d = 1 THEN "raised"
                      ELSE "returned"]
       /\ obs' = [obs EXCEPT ![r] = o]

\* mutant: the permit is not given back when the error is not a rate limit
UpstreamFailed_KeepsPermit(r, f, o, held, kind) ==
    IF kind = "rate_limit"
    THEN /\ permits' = held + 1
         /\ stack' = SetTop(r, [f EXCEPT !.pc = "handler",
                                        !.contents = <<>>, !.calls = <<>>,
                                        !.call_idx = 0, !.failed = {}])
         /\ obs' = [obs EXCEPT ![r] = o]
         /\ UNCHANGED <<out, status>>
    ELSE /\ permits' = held
         /\ End(r, f, [o EXCEPT !.rl_only = FALSE, !.cause = "error"], "none")

\* an upstream call made inside "async with self.api_semaphore" (line 183)
\* raised: the permit is released; a rate-limit-class error goes to the
\* handler of line 229, any other to the one of line 240.  The next pass of
\* the loop builds contents anew (line 194): the old one is dropped here
UpstreamFailed(r, f, o, held, kind) ==
    /\ permits' = held + 1
    /\ IF kind = "rate_limit"
       THEN /\ stack' = SetTop(r, [f EXCEPT !.pc = "handler",
                                           !.contents = <<>>, !.calls = <<>>,
                                           !.call_idx = 0, !.failed = {}])
            /\ obs' = [obs EXCEPT ![r] = o]
            /\ UNCHANGED <<out, status>>
       ELSE End(r, f, [o EXCEPT !.rl_only = FALSE, !.cause = "error"], "none")

\* generate_content_stream (lines 223-227), then the end of the while loop
OpenStream(r, f, o, held) ==
    \/ UpstreamFailed(r, f, o, held, "rate_limit")
    \/ UpstreamFailed(r, f, o, held, "error")
    \/ /\ permits' = held + 1
       /\ stack' = SetTop(r, [f EXCEPT !.pc = "stream",
                                      !.has_yielded_content = FALSE,
                                      !.marks_open = o.marks,
                                      !.chunks = <<>>])
       /\ obs' = [obs EXCEPT ![r] = [o EXCEPT !.rl_only = FALSE]]
       /\ UNCHANGED <<out, status>>

\* lines 217-227 from part `from` of the response on: wait for the next
\* registered tool, or issue the streaming call when none is left
AfterResponse(r, f, o, held, from) ==
    IF NextKnown(f.calls, from) > Len(f.calls)
    THEN OpenStream(r, f, o, held)
    ELSE /\ stack' = SetTop(r, [f EXCEPT !.pc = "tool",
                                        !.call_idx = NextKnown(f.calls, from)])
         /\ permits' = held
         /\ obs' = [obs EXCEPT ![r] = o]
         /\ UNCHANGED <<out, status>>

\* mutant: the semaphore lets every caller in
CanAcquire_Unbounded(free) == TRUE

\* "async with self.api_semaphore" goes on without waiting when a permit is
\* free, and waits otherwise (lines 183 and 233)
CanAcquire(free) == free > 0

\* One pass of the while loop up to its first suspension (lines 178-227):
\* take a permit, _refresh_client, generate_content.
Attempt(r) ==
    /\ status[r] = "running"
    /\ Top(r).pc = "acquire"
    /\ CanAcquire(permits)
    /\ Len(obs[r].attempts) < MaxAttempts
    /\ \E k \in RandomKeyChoices(keys, now, rate_limited_until) :
        /\ TrackUsage(k)
        /\ client_key' = k
        /\ LET f == [Top(r) EXCEPT !.current_key = k,
                                   !.call_key = k,
                                   !.contents = InitialContents,
                                   !.calls = <<>>, !.call_idx = 0,
                                   !.failed = {},
                                   !.attempt = Len(obs[r].attempts) + 1]
               o == [obs[r] EXCEPT !.attempts = Append(@, Top(r).model_index)]
           IN \/ UpstreamFailed(r, f, o, permits - 1, "rate_limit")
              \/ UpstreamFailed(r, f, o, permits - 1, "error")
              \/ \E cs \in CallLists :
                    AfterResponse(r, [f EXCEPT !.calls = cs],
                                  [o EXCEPT !.rl_only = FALSE], permits - 1, 1)
    /\ UNCHANGED <<keys, now, rate_limited_until, driverVars, otherVars, reqs>>

\* the awaited tool returns or raises (lines 311-326), then the loop over
\* the parts of the response goes on
ToolReturn(r) ==
    /\ status[r] = "running"
    /\ Top(r).pc = "tool"
    /\ \E ok \in BOOLEAN :
        LET f == Top(r)
            name == f.calls[f.call_idx]
            g == [f EXCEPT !.contents = ToolOutcome(@, name, ok),
                           !.failed = IF ok THEN @ ELSE @ \cup {f.call_idx},
                           \* the streaming call uses self.client as it is
                           \* now (line 223)
                           !.call_key =
                              IF NextKnown(f.calls, f.call_idx + 1)
                                    > Len(f.calls)
                              THEN client_key ELSE @]
        IN AfterResponse(r, g, obs[r], permits, f.call_idx + 1)
    /\ UNCHANGED <<poolVars, driverVars, otherVars, reqs, client_key>>

\* the handler of lines 229-238 up to its suspension: take a permit, mark
\* the key, then raise, sleep or go on with the next model
HandleRL(r) ==
    /\ status[r] = "running"
    /\ Top(r).pc = "handler"
    /\ CanAcquire(permits)
    /\ LET f == Top(r)
           h == HandleRateLimit(f.retry_count, f.model_index)
           o == [obs[r] EXCEPT !.marks = @ + 1]
       IN /\ rate_limited_until' =
                MarkedUntil(rate_limited_until, f.current_key, now,
                            rate_limit_duration)
          /\ IF h.raises
             THEN /\ End(r, f, [o EXCEPT !.cause = "rate_limit",
                                         !.exhausted = TRUE], "raise")
                  /\ permits' = permits
             ELSE IF h.delay > 0
             THEN /\ stack' = SetTop(r, [f EXCEPT !.pc = "sleep",
                                                  !.delay = h.delay])
                  /\ permits' = permits - 1
                  /\ obs' = [obs EXCEPT ![r] = o]
                  /\ UNCHANGED <<out, status>>
             ELSE /\ stack' = SetTop(r, [f EXCEPT !.pc = "acquire",
                                          !.retry_count = h.retry_count,
                                          !.model_index = h.model_index])
                  /\ permits' = permits
                  /\ obs' = [obs EXCEPT ![r] = o]
                  /\ UNCHANGED <<out, status>>
    /\ UNCHANGED <<keys, now, key_usage_count, last_used_time, driverVars, otherVars,
                   reqs, client_key>>

\* asyncio.sleep(delay) is over (lines 124-126, 235-238): the tuple is
\* returned, the permit is released, the loop goes on
WakeUp(r) ==
    /\ status[r] = "running"
    /\ Top(r).pc = "sleep"
    /\ LET f == Top(r)
           h == HandleRateLimit(f.retry_count, f.model_index)
       IN stack' = SetTop(r, [f EXCEPT !.pc = "acquire", !.delay = 0,
                                          !.retry_count = h.retry_count,
                                          !.model_index = h.model_index])
    /\ permits' = permits + 1
    /\ UNCHANGED <<poolVars, driverVars, otherVars, reqs, client_key, out, status, obs>>

\* lines 271-295, after the loop over the stream
PostLoop(r, f, o) ==
    IF EmptyChunkGuard(f.empty_chunk_count, f.has_yielded_content)
    THEN LET g == EmptyStreamRetry(f.retry_count, f.model_index)
             f2 == [f EXCEPT !.retry_count = g.retry_count,
                             !.model_index = g.model_index,
                             !.ended = "abandoned"]
         IN IF g.gives_up
            THEN End(r, f2, [o EXCEPT !.cause = "empty", !.exhausted = TRUE],
                     "none")
            ELSE /\ Depth(r) < MaxDepth
                 /\ stack' = [stack EXCEPT ![r] =
                        Append([@ EXCEPT ![Len(@)] = [f2 EXCEPT !.pc = "recurse"]],
                               NestedFrame(g.retry_count, g.model_index))]
                 /\ obs' = [obs EXCEPT ![r] = o]
                 /\ UNCHANGED <<out, status>>
    ELSE End(r, [f EXCEPT !.ended = "end"], o, "return")

\* one turn of "for chunk in response_stream" (lines 250-269), with what
\* follows the loop when it is left; contents and the response are not read
\* after line 227 and are dropped from the frame
StreamNext(r) ==
    /\ status[r] = "running"
    /\ Top(r).pc = "stream"
    /\ LET f == [Top(r) EXCEPT !.contents = <<>>, !.calls = <<>>,
                               !.call_idx = 0, !.failed = {}]
       IN \/ \* a fragment with text: it is yielded (lines 254-256), and the
             \* generator is suspended at the yield
             /\ Len(f.chunks) < MaxChunks
             /\ stack' = SetTop(r, [f EXCEPT !.pc = "yield",
                                            !.chunks = Append(@, "T")])
             /\ out' = [out EXCEPT ![r] = Append(@, f.attempt)]
             /\ UNCHANGED <<status, obs>>
          \/ \* a fragment without text (lines 259-267)
             /\ Len(f.chunks) < MaxChunks
             /\ LET g == [f EXCEPT !.empty_chunk_count = @ + 1,
                                   !.chunks = Append(@, "E")]
                IN IF EmptyChunkGuard(g.empty_chunk_count, g.has_yielded_content)
                   THEN PostLoop(r, g, obs[r])
                   ELSE /\ stack' = SetTop(r, g)
                        /\ UNCHANGED <<out, status, obs>>
          \/ \* the stream is exhausted
             PostLoop(r, f, obs[r])
          \/ \* reading the stream raises (lines 297-299)
             \E kind \in {"rate_limit", "error"} :
                End(r, [f EXCEPT !.ended = kind],
                    [obs[r] EXCEPT !.cause = kind], "none")
    /\ UNCHANGED <<poolVars, driverVars, otherVars, reqs, permits, client_key>>

\* the consumer asks for the next item: the generator goes on after the
\* yield of line 256 with the two assignments of lines 257-258, up to the
\* asyncio.sleep(0) of line 269
AfterYield(r) ==
    /\ status[r] = "running"
    /\ Top(r).pc = "yield"
    /\ stack' = SetTop(r, [Top(r) EXCEPT !.pc = "stream",
                                         !.has_yielded_content = TRUE,
                                         !.empty_chunk_count = 0])
    /\ UNCHANGED <<poolVars, driverVars, otherVars, reqs, permits, client_key,
                   out, status, obs>>

\* the consumer asks for the next item after a None: the generator goes on
\* after the yield of line 242 or 285 with the return of the next line, or
\* after the yield of line 299 off the end of the function
AfterYieldNone(r) ==
    /\ status[r] = "running"
    /\ stack[r][1].pc = "yield_none"
    /\ stack' = [stack EXCEPT ![r] =
                    [i \in 1 .. Depth(r) |-> [stack[r][i] EXCEPT !.pc = "done"]]]
    /\ status' = [status EXCEPT ![r] = "returned"]
    /\ UNCHANGED <<poolVars, driverVars, otherVars, reqs, permits, client_key,
                   out, obs>>

\* LLMService.__init__ (lines 57-68): the client is made with a key drawn
\* from a pool just loaded
InitService(c) ==
    \E k \in RandomKeyChoices(1 .. NKeys, 1, [j \in 1 .. NKeys |-> 0]) :
        /\ keys = 1 .. NKeys
        /\ now = 1
        /\ key_usage_count = [j \in 1 .. NKeys |-> IF j = k THEN 1 ELSE 0]
        /\ last_used_time = [j \in 1 .. NKeys |-> IF j = k THEN 1 ELSE 0]
        /\ rate_limited_until = [j \in 1 .. NKeys |-> 0]
        /\ client_key = k
        /\ capacity = c
        /\ default_llm_service = FirstService
        /\ permits = c

\* the key prefixes get_llm_service_async is called with: the one of the
\* pool of the model (the default of line 337), and another one that has
\* keys of its own in the environment
Prefixes == {"GEMINI_API_KEY", "OTHER_KEY"}

\* the keys the environment holds for the other prefix, by their number
OtherKeys == 1 .. NKeys

\* get_llm_service_async (lines 334-372) when it makes a service, because
\* force_new is set or the model name, the backup models or the key prefix
\* differ from those of the default service.  The constructor takes the
\* key manager of the prefix (line 57; get_key_manager keeps one manager
\* per prefix, llm_key_manager.py lines 169-185), draws a key from it
\* (lines 63-65) and makes a semaphore and a client of its own; the calls
\* in progress keep their service.  With the prefix of the pool of the
\* model the key is drawn from that pool; with the other prefix it is drawn
\* from the pool of another manager and the pool of the model is left
\* alone.  (With a prefix that has no key the constructor raises
\* ValueError and nothing changes.)
GetLLMServiceAsync ==
    /\ default_llm_service.made < MaxServices
    /\ \E api_key_prefix \in Prefixes :
        IF api_key_prefix = "GEMINI_API_KEY"
        THEN \E k \in RandomKeyChoices(keys, now, rate_limited_until) :
                /\ TrackUsage(k)
                /\ default_llm_service' =
                     [made |-> default_llm_service.made + 1,
                      api_key_prefix |-> api_key_prefix,
                      client_key |-> k,
                      permits |-> default_max_concurrent_requests]
        ELSE \E k \in OtherKeys :
                /\ default_llm_service' =
                     [made |-> default_llm_service.made + 1,
                      api_key_prefix |-> api_key_prefix,
                      client_key |-> k,
                      permits |-> default_max_concurrent_requests]
                /\ UNCHANGED <<key_usage_count, last_used_time>>
    /\ UNCHANGED <<keys, now, rate_limited_until, driverVars, gwVars,
                   capacity, chatVars, streamVars>>

\* one call of generate_content_with_tools on a service just constructed
Init ==
    /\ InitService(max_concurrent_requests)
    /\ lastCall = NoCall
    /\ opCount = 0
    /\ reqs = {1}
    /\ stack = [r \in reqs |-> <<NewFrame>>]
    /\ out = [r \in reqs |-> <<>>]
    /\ status = [r \in reqs |-> "running"]
    /\ obs = [r \in reqs |-> NewObs]
    /\ ChatIdle

Next ==
    \/ Tick
    \/ \E r \in reqs : Attempt(r)
    \/ \E r \in reqs : ToolReturn(r)
    \/ \E r \in reqs : HandleRL(r)
    \/ \E r \in reqs : WakeUp(r)
    \/ \E r \in reqs : StreamNext(r)
    \/ \E r \in reqs : AfterYield(r)
    \/ \E r \in reqs : AfterYieldNone(r)

Spec == Init /\ [][Next]_vars

(***************************************************************************)
(* Several calls of generate_content_with_tools run together on one        *)
(* LLMService, interleaved by the event loop at their suspension points.   *)
(* The service is made with any capacity up to max_concurrent_requests;    *)
(* each call makes at most MaxConcAttempts upstream attempts, is asked for  *)
(* at most MaxConcCalls tools by a response and reads at most              *)
(* MaxConcChunks fragments of a stream.                                    *)
(***************************************************************************)

\* When several calls run together a response asks for one tool at most,
\* and a stream is read for fewer fragments than the empty-stream guard
\* needs: tool lists and abandoned streams are the business of Spec.
MaxConcCalls == Cardinality(Registered)
MaxConcChunks == max_empty_chunks - 2

\* the calls that run together: a pair is enough for one call to wait for,
\* or to overtake, another
Requests == {1, 2}

InitConc ==
    /\ \E c \in 1 .. max_concurrent_requests : InitService(c)
    /\ lastCall = NoCall
    /\ opCount = 0
    /\ reqs = Requests
    /\ stack = [r \in reqs |-> <<NewFrame>>]
    /\ out = [r \in reqs |-> <<>>]
    /\ status = [r \in reqs |-> "running"]
    /\ obs = [r \in reqs |-> NewObs]
    /\ ChatIdle

\* the innermost frame of call r after the step
TopAfter(r) == stack'[r][Len(stack'[r])]

NextConc ==
    \/ \E r \in reqs : /\ Len(obs[r].attempts) < MaxConcAttempts
                       /\ Attempt(r)
                       /\ Len(TopAfter(r).calls) <= MaxConcCalls
    \/ \E r \in reqs : ToolReturn(r)
    \/ \E r \in reqs : HandleRL(r)
    \/ \E r \in reqs : WakeUp(r)
    \/ \E r \in reqs : /\ StreamNext(r)
                       /\ Len(TopAfter(r).chunks) <= MaxConcChunks
    \/ \E r \in reqs : AfterYield(r)
    \/ \E r \in reqs : AfterYieldNone(r)
    \/ GetLLMServiceAsync

SpecConc == InitConc /\ [][NextConc]_vars

(***************************************************************************)
(* Chat requests: the handler chat gets the service of the request from    *)
(* get_chatbot_service and calls process_query on it; clear_chat is called *)
(* in between.  Neither handler awaits anything, so the event loop runs    *)
(* each of them from its first line to its last.                           *)
(***************************************************************************)

\* mutant: a session is made for every request that comes with an id
NeedsNewSession_Always(sessions, session_id) == TRUE

\* "session_id not in chatbot_sessions" (line 229)
NeedsNewSession(sessions, session_id) == sessions[session_id] = 0

\* get_chatbot_service (lines 211-233): the services and the registry after
\* the call, and the service it returns
GetChatbotService(svcs, sessions, session_id) ==
    IF session_id = ""
    THEN [services |-> svcs, chatbot_sessions |-> sessions, service |-> 1]
    ELSE IF NeedsNewSession(sessions, session_id)
    THEN [services |-> Append(svcs, NewService(session_id)),
          chatbot_sessions |->
             [sessions EXCEPT ![session_id] = Len(svcs) + 1],
          service |-> Len(svcs) + 1]
    ELSE [services |-> svcs, chatbot_sessions |-> sessions,
          service |-> sessions[session_id]]

\* lines 192-198: the two turns are appended when there is a response, and
\* nothing otherwise
TurnsAfter(conversation_history, query, response) ==
    IF response = "text"
    THEN conversation_history \o
            <<[speaker |-> "User", query |-> query],
              [speaker |-> "Chatbot", query |-> query]>>
    ELSE conversation_history

\* whether the request comes with a document, and whether load_document
\* could read it (lines 120-133)
Documents == {"none", "unloadable", "loaded"}

\* self.llm_service.generate_content(prompt=..., file_path=...,
\* system_instruction=...) (lines 185-189): generate_content of
\* backend/services/llm_service.py (lines 33-36) has no parameter
\* system_instruction, so the call raises TypeError before anything is
\* sent
GenerateContent == {"raise"}

\* how process_query ends (lines 106-202): with the apology for the
\* document (line 133), or as the call of generate_content ends
Responses(document) ==
    IF document = "unloadable" THEN {"nodoc"} ELSE GenerateContent

\* process_query (lines 106-202): the service after the query
ProcessQuery(service, query, response) ==
    [service EXCEPT
        !.conversation_history = TurnsAfter(@, query, response),
        !.turns = IF response = "text" THEN @ + 1 ELSE @]

\* chat (chat_api.py, lines 71-89): the request is given its service and
\* its query is processed
Chat(r) ==
    /\ chats[r].pc = "arrived"
    /\ \E document \in Documents : \E response \in Responses(document) :
        LET got == GetChatbotService(services, chatbot_sessions,
                                     chats[r].session_id)
        IN /\ services' =
                [got.services EXCEPT
                    ![got.service] = ProcessQuery(@, r, response)]
           /\ chatbot_sessions' = got.chatbot_sessions
           /\ chats' = [chats EXCEPT ![r].pc = "done",
                                     ![r].service = got.service,
                                     ![r].response = response]
    /\ UNCHANGED <<poolVars, driverVars, gwVars, capacity,
                   default_llm_service, lastClear, streamVars>>

\* "session_id and session_id in chatbot_sessions" (chat_api.py, line 176)
ClearFinds(sessions, session_id) ==
    session_id # "" /\ sessions[session_id] # 0

\* chat_api.py, lines 176-177: the services after clear_chat(session_id)
ClearedServices(svcs, sessions, session_id) ==
    IF ClearFinds(sessions, session_id)
    THEN [svcs EXCEPT ![sessions[session_id]].conversation_history = <<>>,
                      ![sessions[session_id]].turns = 0]
    ELSE svcs

\* clear_chat (chat_api.py, lines 164-181)
ClearChat ==
    /\ lastClear.n < MaxClears
    /\ \E session_id \in SessionIds :
        /\ services' = ClearedServices(services, chatbot_sessions, session_id)
        /\ lastClear' =
             [n |-> lastClear.n + 1, session_id |-> session_id,
              status |-> IF ClearFinds(chatbot_sessions, session_id)
                         THEN "success" ELSE "error"]
    /\ UNCHANGED <<poolVars, driverVars, gwVars, capacity,
                   default_llm_service, chatbot_sessions, chats, streamVars>>

\* NChats requests have arrived, each with a session id or none
InitChat ==
    /\ InitPool(NKeys)
    /\ lastCall = NoCall
    /\ opCount = 0
    /\ reqs = {}
    /\ stack = <<>>
    /\ capacity = max_concurrent_requests
    /\ default_llm_service = FirstService
    /\ permits = capacity
    /\ client_key = 0
    /\ out = <<>>
    /\ status = <<>>
    /\ obs = <<>>
    /\ services = <<NewService(DefaultId)>>
    /\ chatbot_sessions = [id \in SessionIds \ {""} |-> 0]
    /\ chats \in [1 .. NChats ->
                    [pc : {"arrived"}, session_id : SessionIds, service : {0},
                     response : {""}]]
    /\ lastClear = NoClear
    /\ StreamIdle

NextChat ==
    \/ \E r \in DOMAIN chats : Chat(r)
    \/ ClearChat

SpecChat == InitChat /\ [][NextChat]_vars

(***************************************************************************)
(* The streaming chat: chat_stream and clear_chat of                       *)
(* src/src/api/v1/chat_api.py (lines 24-43 and 46-62).  They call          *)
(* get_chatbot_service_async, automation_flow_stream and clear_session,    *)
(* which the module they are imported from (src/services/chat_service.py,  *)
(* line 19) does not define, and no other module does.  These are modelled *)
(* from the design: SessionRegistry and ChatSession (spec.md, section 4.4) *)
(* and StreamCoordinator.handle (section 4.5), scheduled as section 5 says *)
(* (generation suspends at every fragment, a commit to a session's turn    *)
(* list is made under the guard of the session).  The gateway is seen from *)
(* its consumer: fragments with text, then the natural end of the sequence *)
(* or the sentinel of a terminal failure.                                  *)
(***************************************************************************)

\* ConversationTurn: the tag of the speaker and the text, which is the query
\* of the request for the user and the first `fragments` fragments of the
\* response to it for the assistant
Turn(tag, r, n) == [speakerTag |-> tag, request |-> r, fragments |-> n]

\* getOrCreate, the id: the one supplied, or one generated for the request
SessionIdOf(r, session_id) ==
    IF session_id = "" THEN GeneratedIds[r] ELSE session_id

\* getOrCreate, the registry: a new ChatSession if there is none for the id
GetOrCreate(reg, id) ==
    IF reg[id].exists THEN reg
    ELSE [reg EXCEPT ![id] = [exists |-> TRUE, turns |-> <<>>]]

\* ChatSession.snapshotHistory: a copy of the turn list
SnapshotHistory(reg, id) == reg[id].turns

\* mutant: the turn of the user is committed without that of the assistant
AppendTurns_UserOnly(turns, r, n) == Append(turns, Turn("user", r, 0))

\* ChatSession.append(userText, assistantText): both turns, under the guard
AppendTurns(turns, r, n) ==
    turns \o <<Turn("user", r, 0), Turn("assistant", r, n)>>

\* mutant: the reset empties the turn list of every session
ClearedRegistry_All(reg, id) ==
    IF id \in DOMAIN reg /\ reg[id].exists
    THEN [j \in DOMAIN reg |-> [reg[j] EXCEPT !.turns = <<>>]]
    ELSE reg

\* SessionRegistry.clear(sessionId), the registry: ChatSession.clear empties
\* the turn list of the session if there is one
ClearedRegistry(reg, id) ==
    IF id \in DOMAIN reg /\ reg[id].exists
    THEN [reg EXCEPT ![id].turns = <<>>]
    ELSE reg

\* SessionRegistry.clear(sessionId), the boolean
ClearSession(reg, session_id) ==
    session_id \in DOMAIN reg /\ reg[session_id].exists

\* the number of turns the sessions of `ids` hold
RECURSIVE TurnsHeld(_, _)
TurnsHeld(reg, ids) ==
    IF ids \cap DOMAIN reg = {} THEN 0
    ELSE LET id == CHOOSE j \in ids \cap DOMAIN reg : TRUE
         IN Len(reg[id].turns) + TurnsHeld(reg, ids \ {id})

\* chat_stream (lines 24-43) up to the StreamingResponse: handle resolves or
\* creates the session and snapshots its history for the prompt
HandleStart(r) ==
    /\ handles[r].pc = "arrived"
    /\ LET id == SessionIdOf(r, handles[r].session_id)
           reg == GetOrCreate(registry, id)
       IN /\ registry' = reg
          /\ handles' = [handles EXCEPT
                            ![r].pc = "streaming",
                            ![r].session = id,
                            ![r].snapshot = SnapshotHistory(reg, id)]
    /\ UNCHANGED <<poolVars, driverVars, gwVars, capacity,
                   default_llm_service, chatVars, lastReset>>

\* handle (a), (b): a fragment of the gateway is forwarded and accumulated
ForwardFragment(r) ==
    /\ handles[r].pc = "streaming"
    /\ handles[r].fragments < MaxFragments
    /\ handles' = [handles EXCEPT ![r].fragments = @ + 1]
    /\ UNCHANGED <<poolVars, driverVars, gwVars, capacity,
                   default_llm_service, chatVars, registry, lastReset>>

\* handle (c): the sequence of the gateway is exhausted, the query and the
\* accumulated text are appended to the session
CommitTurn(r) ==
    /\ handles[r].pc = "streaming"
    /\ registry' = [registry EXCEPT ![handles[r].session].turns =
                       AppendTurns(@, r, handles[r].fragments)]
    /\ handles' = [handles EXCEPT ![r].pc = "done", ![r].ended = "completed"]
    /\ UNCHANGED <<poolVars, driverVars, gwVars, capacity,
                   default_llm_service, chatVars, lastReset>>

\* handle: the sequence of the gateway ends with a terminal failure, or the
\* client stops reading; what was forwarded stays forwarded, nothing is
\* appended
DropTurn(r) ==
    /\ handles[r].pc = "streaming"
    /\ \E how \in {"failed", "disconnected"} :
        handles' = [handles EXCEPT ![r].pc = "done", ![r].ended = how]
    /\ UNCHANGED <<poolVars, driverVars, gwVars, capacity,
                   default_llm_service, chatVars, registry, lastReset>>

\* clear_chat (lines 46-62): the session is cleared and the answer tells
\* whether there was one
ClearChatStream ==
    /\ lastReset.n < MaxClears
    /\ \E session_id \in SuppliedIds :
        LET success == ClearSession(registry, session_id)
        IN /\ registry' = ClearedRegistry(registry, session_id)
           /\ lastReset' =
                [n |-> lastReset.n + 1, session_id |-> session_id,
                 found |-> success,
                 status |-> IF success THEN "success" ELSE "warning",
                 emptied |-> TurnsHeld(registry, {session_id}),
                 others |-> TurnsHeld(registry, RegistryIds \ {session_id})]
    /\ UNCHANGED <<poolVars, driverVars, gwVars, capacity,
                   default_llm_service, chatVars, handles>>

\* NChats requests have arrived over chat-stream, each with a session id or
\* none
InitStream ==
    /\ InitPool(NKeys)
    /\ lastCall = NoCall
    /\ opCount = 0
    /\ reqs = {}
    /\ stack = <<>>
    /\ capacity = max_concurrent_requests
    /\ default_llm_service = FirstService
    /\ permits = capacity
    /\ client_key = 0
    /\ out = <<>>
    /\ status = <<>>
    /\ obs = <<>>
    /\ services = <<NewService(DefaultId)>>
    /\ chatbot_sessions = [id \in SessionIds \ {""} |-> 0]
    /\ chats = <<>>
    /\ lastClear = NoClear
    /\ registry = NoSessions
    /\ handles \in [1 .. NChats ->
                      [pc : {"arrived"}, session_id : SuppliedIds,
                       session : {""}, snapshot : {<<>>}, fragments : {0},
                       ended : {""}]]
    /\ lastReset = NoReset

NextStream ==
    \/ \E r \in DOMAIN handles : HandleStart(r)
    \/ \E r \in DOMAIN handles : ForwardFragment(r)
    \/ \E r \in DOMAIN handles : CommitTurn(r)
    \/ \E r \in DOMAIN handles : DropTurn(r)
    \/ ClearChatStream

SpecStream == InitStream /\ [][NextStream]_vars

(***************************************************************************)
(* Claims about the credential pool (checked under SpecPool).              *)
(***************************************************************************)

\* the keys whose cooldown had passed when the last pool operation ran
PassedAtCall == {k \in keys : lastCall.time > lastCall.until[k]}

\* C1: get_random_key on a non-empty pool never raises and returns a key of
\* the pool, whatever the cooldown states, also when every key is marked
\* rate-limited.
C1_SelectRandomTotal ==
    lastCall.op = "get_random_key" =>
        /\ ~lastCall.raised
        /\ lastCall.key \in keys

\* C1 witness: get_random_key has returned from a pool of several keys that
\* were all cooling down.
C1_Witness ==
    /\ lastCall.op = "get_random_key"
    /\ Cardinality(keys) >= 2
    /\ PassedAtCall = {}
    /\ lastCall.key \in keys

\* C2: get_random_key returns a key whose cooldown has passed whenever there
\* is one; otherwise the key it returns has the least rate_limited_until of
\* the pool.
C2_SelectRandomPrefersAvailable ==
    (lastCall.op = "get_random_key" /\ ~lastCall.raised) =>
        /\ PassedAtCall # {} => lastCall.key \in PassedAtCall
        /\ PassedAtCall = {} =>
              \A j \in keys : lastCall.until[lastCall.key] <= lastCall.until[j]

\* C2 witness: every key was cooling down, with different expiries, and the
\* call returned the one that recovers first.
C2_Witness ==
    /\ lastCall.op = "get_random_key"
    /\ PassedAtCall = {}
    /\ \E j \in keys : lastCall.until[j] > lastCall.until[lastCall.key]

\* C3 (as claimed): mark_key_rate_limited never moves the expiry of a key's
\* cooldown earlier; a second call with a shorter duration leaves the later
\* expiry in place.
C3_MarkNeverShortens ==
    (lastCall.op = "mark_key_rate_limited" /\ lastCall.key \in keys) =>
        rate_limited_until[lastCall.key] >= lastCall.until[lastCall.key]

(***************************************************************************)
(* Claims about one call of generate_content_with_tools (checked under     *)
(* Spec).                                                                  *)
(***************************************************************************)

Ended(r) == status[r] # "running"

\* the text fragments the consumer of call r has received
TextsOf(r) == {j \in DOMAIN out[r] : out[r][j] > 0}

\* the frame's stream was abandoned by the empty-stream guard
Abandoned(f) == f.ended = "abandoned"

\* C4 (as claimed): with the chain [A, B] and an upstream that answers every
\* call with a rate-limit-class error, a call makes exactly max_retries
\* attempts on A, then exactly max_retries attempts on B, then reports
\* exhaustion, and never goes back to A.
C4_FallbackOrder ==
    \A r \in reqs :
        (Ended(r) /\ obs[r].rl_only /\ NBackup = 1) =>
            obs[r].attempts =
                [i \in 1 .. 2 * max_retries |->
                    IF i <= max_retries THEN 0 ELSE 1]

\* C5 (as claimed): within one call the model index of successive upstream
\* attempts never decreases, whether the retry comes from a rate-limit
\* error or from the empty-stream guard.
C5_ModelIndexNeverDecreases ==
    \A r \in reqs : \A i, j \in DOMAIN obs[r].attempts :
        i < j => obs[r].attempts[i] <= obs[r].attempts[j]

\* C6 (as claimed): when the chain is exhausted by rate-limit-class errors,
\* the sequence ends by delivering None; no exception reaches the consumer.
C6_ExhaustionDeliversSentinel ==
    \A r \in reqs :
        (Ended(r) /\ obs[r].exhausted /\ obs[r].cause = "rate_limit") =>
            /\ status[r] = "returned"
            /\ out[r] # <<>>
            /\ out[r][Len(out[r])] = 0

\* C7 (as claimed): a rate-limit-class error of the upstream, at whatever
\* stage of an attempt it is raised, ends the sequence with a failure only
\* when the whole chain is exhausted.
C7_RateLimitAbsorbed ==
    \A r \in reqs :
        (Ended(r) /\ obs[r].cause = "rate_limit") => obs[r].exhausted

\* C8 (as claimed): unless an unexpected upstream error occurred, a sequence
\* that ends without any text fragment delivered ends so because every
\* model of the chain is exhausted.
C8_EmptyOnlyOnExhaustion ==
    \A r \in reqs :
        (Ended(r) /\ obs[r].cause # "error" /\ TextsOf(r) = {}) =>
            obs[r].exhausted

\* C9: a stream is abandoned and retried only after max_empty_chunks
\* fragments without text and none with text.  Once a stream has yielded
\* text no further upstream attempt is made, no key is marked, and the
\* consumer receives its text fragments and no others; for the stream
\* empty, empty, text, end that is exactly the one fragment.
C9_BelowThresholdNotRetried ==
    \A r \in reqs : \A i \in 1 .. Depth(r) :
        LET f == stack[r][i]
        IN /\ (i < Depth(r) \/ Abandoned(f)) =>
                /\ Len(f.chunks) >= max_empty_chunks
                /\ \A j \in DOMAIN f.chunks : f.chunks[j] = "E"
           /\ (\E j \in DOMAIN f.chunks : f.chunks[j] = "T") =>
                /\ i = Depth(r)
                /\ Len(obs[r].attempts) = f.attempt
                /\ obs[r].marks = f.marks_open
                /\ \A j \in TextsOf(r) : out[r][j] = f.attempt
                /\ Cardinality(TextsOf(r)) =
                      Cardinality({j \in DOMAIN f.chunks : f.chunks[j] = "T"})
           /\ (f.chunks = <<"E", "E", "T">> /\ f.ended = "end") =>
                out[r] = <<f.attempt>>

\* C9 witness: the stream empty, empty, text has ended and the call has
\* returned.
C9_Witness ==
    \E r \in reqs :
        /\ status[r] = "returned"
        /\ Top(r).chunks = <<"E", "E", "T">>
        /\ Top(r).ended = "end"
        /\ out[r] = <<Top(r).attempt>>

\* C10 (as claimed): every stream abandoned by the empty-stream guard
\* triggers exactly one retry attempt.
C10_AbandonedStreamRetried ==
    \A r \in reqs : \A i \in 1 .. Depth(r) :
        Abandoned(stack[r][i]) => i < Depth(r)

\* C10 (amended): a stream abandoned by the empty-stream guard triggers
\* exactly one retry, a nested generation, unless counting the abandoned
\* attempt moves the model index past the end of the chain; then the
\* generator gives up without a retry.  Nothing else starts a nested
\* generation.
C10_AbandonedStreamRetriedUnlessExhausted ==
    \A r \in reqs :
        /\ \A i \in 1 .. Depth(r) :
            LET f == stack[r][i]
            IN /\ (Abandoned(f) /\ f.model_index < ChainLen) => i < Depth(r)
               /\ (Abandoned(f) /\ f.model_index >= ChainLen) =>
                    (i = Depth(r) /\ (Ended(r) \/ f.pc = "yield_none"))
               /\ i < Depth(r) => Abandoned(f)
        /\ Depth(r) - 1 =
              Cardinality({i \in 1 .. Depth(r) :
                             /\ Abandoned(stack[r][i])
                             /\ stack[r][i].model_index < ChainLen})

\* C10 witness: a stream was abandoned and the nested generation it
\* triggered has made its upstream attempt.
C10_Witness ==
    \E r \in reqs :
        /\ Depth(r) = 2
        /\ Abandoned(stack[r][1])
        /\ stack[r][1].chunks = <<"E", "E", "E">>
        /\ stack[r][2].attempt = stack[r][1].attempt + 1

\* C11: once an attempt has yielded text, fragments without text that follow
\* cause no retry, so the text a call delivers comes from one upstream
\* stream: every text fragment received carries the same attempt, that
\* attempt is the last one made, and each is received once.
C11_TextFromSingleStream ==
    \A r \in reqs :
        TextsOf(r) # {} =>
            /\ \A i, j \in TextsOf(r) : out[r][i] = out[r][j]
            /\ \A i \in TextsOf(r) : out[r][i] = Len(obs[r].attempts)
            /\ ~Abandoned(Top(r))
            /\ Len(SelectSeq(out[r], LAMBDA x : x > 0)) =
                  Len(SelectSeq(Top(r).chunks, LAMBDA c : c = "T"))

\* C11 witness: a stream gave text and then max_empty_chunks fragments
\* without text, and the call returned with that one fragment.
C11_Witness ==
    \E r \in reqs :
        /\ status[r] = "returned"
        /\ Top(r).chunks = <<"T", "E", "E", "E">>
        /\ Top(r).empty_chunk_count >= max_empty_chunks
        /\ out[r] = <<Len(obs[r].attempts)>>

(***************************************************************************)
(* Claims about calls that run together (checked under SpecConc).          *)
(***************************************************************************)

\* the calls inside the "async with" of line 183: generate_content and
\* generate_content_stream do not yield to the event loop, so between two
\* steps such a call is waiting for a tool (line 313)
InSection == {r \in reqs : status[r] = "running" /\ Top(r).pc = "tool"}

\* the calls in asyncio.sleep(delay) of line 124
Sleeping == {r \in reqs : status[r] = "running" /\ Top(r).pc = "sleep"}

\* C12: at every moment the calls that are between their tool-resolution
\* call and their streaming call are at most as many as the semaphore's
\* capacity, and each of them holds a permit: the permits taken are never
\* fewer than these calls, and never more than the capacity.
C12_UpstreamCallsWithinCapacity ==
    /\ permits \in 0 .. capacity
    /\ Cardinality(InSection) <= capacity - permits
    /\ Cardinality(InSection) <= capacity

\* C12 witness: the semaphore is full with calls waiting for their tools
\* while another call, which has made no upstream call yet, waits for a
\* permit.
C12_Witness ==
    /\ permits = 0
    /\ Cardinality(InSection) = capacity
    /\ \E r \in reqs : /\ status[r] = "running"
                       /\ Top(r).pc = "acquire"
                       /\ obs[r].attempts = <<>>

\* C13 (as claimed): a call sleeping in its retry backoff holds no permit;
\* while calls sleep, the permits taken are those of the calls between
\* their two upstream calls, so that with as many sleepers as the capacity
\* a permit is still free.
C13_BackoffHoldsNoPermit ==
    Sleeping # {} =>
        /\ permits + Cardinality(InSection) = capacity
        /\ Cardinality(Sleeping) >= capacity => permits > 0

(***************************************************************************)
(* Claims about the tools of an attempt (checked under Spec).              *)
(***************************************************************************)

\* the streaming call of the frame has just returned its stream: nothing
\* was read from it yet, and the frame still holds the response and the
\* conversation sent
JustOpened(f) == f.pc = "stream" /\ f.chunks = <<>>

\* C14: when the streaming call is issued, every function call of the
\* tool-resolution response has been resolved: its tool is not registered
\* (skipped), or it was awaited and has returned or raised; none is still
\* being awaited and none was left out.  While a tool is awaited no
\* stream is open.
C14_ToolsResolvedBeforeStream ==
    \A r \in reqs :
        LET f == Top(r)
        IN /\ JustOpened(f) =>
                \A i \in 1 .. Len(f.calls) :
                    f.calls[i] \in Registered =>
                        /\ i <= f.call_idx
                        /\ (i \in f.failed \/
                            \E j \in DOMAIN f.contents :
                                /\ f.contents[j].kind = "function_response"
                                /\ f.contents[j].name = f.calls[i])
           /\ f.pc = "tool" =>
                /\ f.call_idx \in 1 .. Len(f.calls)
                /\ f.calls[f.call_idx] \in Registered
                /\ f.chunks = <<>>

\* C14 witness: the stream was opened after an unknown tool was skipped and
\* a registered one, named after it in the response, was executed.
C14_Witness ==
    \E r \in reqs :
        /\ JustOpened(Top(r))
        /\ Top(r).calls = <<"unknownTool", "lookupPrice">>
        /\ Top(r).call_idx = 2
        /\ Len(Top(r).contents) = 3

\* the conversation after the first n parts of the response: the prompt,
\* then a function call and its function response for each part whose tool
\* is registered and did not raise
RECURSIVE Conversation(_, _, _)
Conversation(calls, failed, n) ==
    IF n = 0 THEN <<[role |-> "user", kind |-> "text", name |-> ""]>>
    ELSE IF calls[n] \in Registered /\ n \notin failed
         THEN Conversation(calls, failed, n - 1) \o
                <<[role |-> "model", kind |-> "function_call",
                   name |-> calls[n]],
                  [role |-> "user", kind |-> "function_response",
                   name |-> calls[n]]>>
         ELSE Conversation(calls, failed, n - 1)

\* a step of call r that ends the wait for a tool goes on with the
\* attempt: the next registered tool is awaited or the streaming call is
\* issued (which may fail); no new attempt is started and no key is marked
ToolStepGoesOn(r) ==
    (status[r] = "running" /\ Top(r).pc = "tool" /\ stack'[r] # stack[r]) =>
        /\ obs'[r].attempts = obs[r].attempts
        /\ obs'[r].marks = obs[r].marks
        /\ rate_limited_until' = rate_limited_until
        /\ status'[r] # "raised"
        /\ TopAfter(r).pc \in {"tool", "stream", "handler", "yield_none",
                              "done"}
        /\ TopAfter(r).pc = "tool" => TopAfter(r).call_idx > Top(r).call_idx
        /\ TopAfter(r).pc \in {"tool", "stream"} =>
              TopAfter(r).retry_count = Top(r).retry_count
        /\ TopAfter(r).pc \in {"yield_none", "done"} =>
              obs'[r].cause = "error"

\* C15: a function call whose tool is not registered, or whose tool raises,
\* adds nothing to the conversation: while tools are awaited and when the
\* stream is opened, the conversation is the prompt followed by the pairs
\* of the calls that were executed, in order.  Such a call does not end
\* the attempt or start a retry: the remaining calls are processed and the
\* streaming call is issued.
C15_FailedToolOmitted ==
    /\ [](\A r \in reqs :
            LET f == Top(r)
            IN /\ f.pc = "tool" =>
                    f.contents = Conversation(f.calls, f.failed, f.call_idx - 1)
               /\ JustOpened(f) =>
                    f.contents = Conversation(f.calls, f.failed, Len(f.calls)))
    /\ [][\A r \in reqs : ToolStepGoesOn(r)]_vars

\* C15 witness: the first tool raised, the second one was executed, and
\* the stream was opened with the pair of the second call only.
C15_Witness ==
    \E r \in reqs :
        /\ JustOpened(Top(r))
        /\ Top(r).calls = <<"lookupPrice", "lookupPrice">>
        /\ Top(r).failed = {1}
        /\ Len(Top(r).contents) = 3

(***************************************************************************)
(* Claims about the chat sessions (checked under SpecChat).                *)
(***************************************************************************)

\* a request that has been given its service
Served(r) == chats[r].pc # "arrived"

\* C17: the registry holds at most one session object per session id, and
\* two requests that come with the same non-empty id are given the same
\* object.
C17_OneSessionPerId ==
    /\ \A id \in SessionIds \ {""} :
         chatbot_sessions[id] # 0 =>
            /\ chatbot_sessions[id] \in DOMAIN services
            /\ services[chatbot_sessions[id]].session_id = id
    /\ \A r1, r2 \in DOMAIN chats :
         (/\ Served(r1) /\ Served(r2)
          /\ chats[r1].session_id # ""
          /\ chats[r1].session_id = chats[r2].session_id)
            => chats[r1].service = chats[r2].service

\* two requests came with the same id, and the second has been given the
\* session that was made for the first, the only one made
C17_Witness ==
    \E r1, r2 \in DOMAIN chats :
        /\ r1 # r2
        /\ chats[r1].session_id = "s1" /\ chats[r2].session_id = "s1"
        /\ chats[r1].pc = "done" /\ chats[r2].pc = "done"
        /\ chats[r2].service = chats[r1].service
        /\ chatbot_sessions["s1"] = chats[r1].service
        /\ Len(services) = 2

\* C18: two requests that come without a session id are given two sessions
\* with distinct ids, so neither sees the history of the other.
C18_IdlessSessionsDistinct ==
    \A r1, r2 \in DOMAIN chats :
        (/\ r1 # r2
         /\ Served(r1) /\ Served(r2)
         /\ chats[r1].session_id = "" /\ chats[r2].session_id = "")
            => /\ chats[r1].service # chats[r2].service
               /\ services[chats[r1].service].session_id
                    # services[chats[r2].service].session_id

(***************************************************************************)
(* Claims about the streaming chat (checked under SpecStream).             *)
(***************************************************************************)

\* a history made of (user turn, assistant turn) pairs, in that order, each
\* pair of one request
PairsOnly(h) ==
    /\ Len(h) % 2 = 0
    /\ \A i \in 1 .. Len(h) :
         i % 2 = 1 =>
            /\ h[i].speakerTag = "user"
            /\ i + 1 <= Len(h)
            /\ h[i + 1].speakerTag = "assistant"
            /\ h[i + 1].request = h[i].request

\* the requests on session id whose turn was completed
Completed(id) ==
    {r \in DOMAIN handles :
        handles[r].ended = "completed" /\ handles[r].session = id}

\* request r ends in this step, and how
EndsNow(r, how) ==
    /\ handles[r].pc # "done"
    /\ handles'[r].pc = "done"
    /\ handles'[r].ended = how

\* a step changes the turn list of a session only by appending the complete
\* pair of a request on it whose generation ends naturally in that step, or
\* by emptying it in a clear-chat
TurnsChangeByPairs ==
    \A id \in RegistryIds :
        registry'[id].turns # registry[id].turns =>
            \/ \E r \in DOMAIN handles :
                /\ EndsNow(r, "completed")
                /\ handles[r].session = id
                /\ registry'[id].turns =
                     registry[id].turns \o
                        <<Turn("user", r, 0),
                          Turn("assistant", r, handles[r].fragments)>>
            \/ /\ lastReset' # lastReset
               /\ registry'[id].turns = <<>>

\* a request whose generation does not end naturally appends nothing
DroppedAppendsNothing ==
    \A r \in DOMAIN handles :
        (EndsNow(r, "failed") \/ EndsNow(r, "disconnected"))
            => registry' = registry

RegisteredIds(reg) == {id \in DOMAIN reg : reg[id].exists}

\* what one clear-chat does
ClearStepOK ==
    lastReset' # lastReset =>
        LET id == lastReset'.session_id
            known == id \in RegisteredIds(registry)
        IN /\ RegisteredIds(registry') = RegisteredIds(registry)
           /\ \A j \in RegistryIds : j # id => registry'[j] = registry[j]
           /\ IF known
              THEN /\ registry'[id].turns = <<>>
                   /\ lastReset'.found
                   /\ lastReset'.status = "success"
              ELSE /\ registry' = registry
                   /\ ~lastReset'.found
                   /\ lastReset'.status = "warning"

C20_AbandonedStreamMarksKey ==
    \A r \in reqs : \A i \in 1 .. Len(stack[r]) - 1 :
        (Abandoned(stack[r][i]) /\ stack[r][i + 1] = NewFrame)
            => /\ obs[r].marks > stack[r][i].marks_open
               /\ rate_limited_until[stack[r][i].current_key]
                    >= now + rate_limit_duration

(***************************************************************************)
(* Retry bookkeeping (checked under Spec).                                 *)
(***************************************************************************)

\* C21 (as claimed): the retry counter and the model index accumulated
\* before an empty-stream retry are carried into the next attempt, so that
\* a call whose streams are all abandoned makes at most max_retries
\* attempts per model of the chain before it reports exhaustion.
C21_EmptyRetryCarriesCounters ==
    \A r \in reqs :
        /\ \A i \in 1 .. Depth(r) - 1 :
            (/\ Abandoned(stack[r][i])
             /\ stack[r][i + 1].pc = "acquire"
             /\ stack[r][i + 1].attempt = 0)
                => /\ stack[r][i + 1].retry_count = stack[r][i].retry_count
                   /\ stack[r][i + 1].model_index = stack[r][i].model_index
        /\ (\A i \in 1 .. Depth(r) : Abandoned(stack[r][i]))
                => Len(obs[r].attempts) <= max_retries * ChainLen

\* the attempts of call r made on model m
AttemptsOn(r, m) ==
    Cardinality({i \in DOMAIN obs[r].attempts : obs[r].attempts[i] = m})

\* C23 (as claimed): while only rate-limit-class errors have occurred, the
\* first attempt on every model of the chain is made with retry counter 0,
\* the backoff slept before a model's r-th retry is retry_delay * 2^r, and
\* every model gets as many attempts as the primary.
C23_EachModelStartsAtZero ==
    \A r \in reqs :
        (obs[r].rl_only /\ Depth(r) = 1) =>
            LET f == Top(r)
                n == AttemptsOn(r, f.model_index)
            IN /\ (f.pc = "acquire" /\ n = 0) => f.retry_count = 0
               /\ f.pc = "sleep" => f.delay = retry_delay * Pow2(n - 1)
               /\ obs[r].exhausted =>
                    \A m \in 0 .. NBackup :
                        AttemptsOn(r, m) = AttemptsOn(r, 0)

(***************************************************************************)
(* The shared client of calls that run together (checked under SpecConc).  *)
(***************************************************************************)

\* C22 (as claimed): under any interleaving of calls on one service, the
\* key a call is about to mark after a failed upstream call is the key with
\* which that call was made, and while a call waits for a tool the shared
\* client still has the key the call selected.
C22_MarkedKeyIsKeyUsed ==
    \A r \in reqs :
        status[r] = "running" =>
            /\ Top(r).pc = "handler" => Top(r).current_key = Top(r).call_key
            /\ Top(r).pc = "tool" => client_key = Top(r).current_key

(***************************************************************************)
(* Errors that are not rate limits, and the permits (checked under Spec).  *)
(***************************************************************************)

\* call r has ended because an upstream call of the while loop raised an
\* error that is not of the rate-limit class (lines 240-243)
EndedByError(r) ==
    /\ Ended(r)
    /\ obs[r].cause = "error"
    /\ Top(r).ended = ""

\* C26 (as claimed): an error that is not of the rate-limit class, raised
\* while the stream is being obtained, ends the call at once: None is the
\* last thing the consumer receives, no further attempt is made, and the
\* permit is back.
C26_FatalErrorDeliversSentinel ==
    \A r \in reqs :
        EndedByError(r) =>
            /\ status[r] = "returned"
            /\ out[r] # <<>>
            /\ out[r][Len(out[r])] = 0
            /\ Len(obs[r].attempts) = Top(r).attempt
            /\ permits = capacity

(***************************************************************************)
(* The key of a retry (checked under Spec).                                *)
(***************************************************************************)

\* call r makes an upstream attempt in this step, after an attempt of the
\* same activation whose key was marked
RetriesNow(r) ==
    /\ status[r] = "running"
    /\ Top(r).pc = "acquire"
    /\ Top(r).attempt > 0
    /\ Len(obs'[r].attempts) > Len(obs[r].attempts)

\* the key marked before the retry, the key the retry takes, and the keys
\* whose cooldown has passed when it selects
MarkedKey(r) == Top(r).current_key
TakenKey(r) == stack'[r][Len(stack[r])].current_key
PassedKeys == AvailableKeys(keys, now, rate_limited_until)

\* the statement of the claim: the retry takes another key than the one
\* just marked whenever a key is past its cooldown
RetryTakesAnotherKey(r) ==
    RetriesNow(r) =>
        /\ TakenKey(r) = client_key'
        /\ PassedKeys # {} =>
             (TakenKey(r) \in PassedKeys /\ TakenKey(r) # MarkedKey(r))
        /\ TakenKey(r) = MarkedKey(r) => PassedKeys = {}

\* the retry takes a key whose cooldown has passed when there is one: the
\* key just marked only if its own cooldown has passed by then, and a key
\* that is cooling down only when every key is
RetrySelectsAnew(r) ==
    RetriesNow(r) =>
        /\ TakenKey(r) = client_key'
        /\ PassedKeys # {} => TakenKey(r) \in PassedKeys
        /\ (PassedKeys # {} /\ MarkedKey(r) \notin PassedKeys)
              => TakenKey(r) # MarkedKey(r)
        /\ PassedKeys = {} =>
              TakenKey(r) = SoonestKey(keys, rate_limited_until)

\* C27 (as claimed): every attempt selects a key anew from the pool: after
\* a key was marked rate-limited the next attempt of the call uses another
\* key, whose cooldown has passed, whenever the pool has one, and the key
\* just marked only when every key is cooling down.
C27_RetrySelectsAvailableKey ==
    [][\A r \in reqs : RetryTakesAnotherKey(r)]_vars

\* C27 (amended): every attempt selects a key anew from the pool: after a
\* key was marked rate-limited the next attempt of the call uses a key whose
\* cooldown has passed whenever the pool has one, which is another key
\* unless the cooldown of the marked key has itself passed by then; a key
\* that is still cooling down is used only when every key is cooling down.
C27_RetrySelectsAmongAvailable ==
    [][\A r \in reqs : RetrySelectsAnew(r)]_vars

\* the second attempt of a call was made with the key of its first attempt,
\* marked in between and past its cooldown at the selection (last_used_time
\* is the time of the selection), while another key was available as well
C27_Witness ==
    \E r \in reqs :
        LET k == Top(r).current_key
        IN /\ reqs = {r}
           /\ Top(r).attempt = 2
           /\ obs[r].marks = 1
           /\ rate_limited_until[k] > 0
           /\ last_used_time[k] > rate_limited_until[k]
           /\ \E j \in keys : j # k /\ rate_limited_until[j] = 0

(***************************************************************************)
(* The conversation of the streaming call (checked under Spec).            *)
(***************************************************************************)

\* the parts of the frame's response whose tool was awaited and returned,
\* in the order of the response
Executed(f) ==
    {i \in DOMAIN f.calls : f.calls[i] \in Registered /\ i \notin f.failed}

\* the j-th of them
RECURSIVE NthExecuted(_, _, _)
NthExecuted(f, j, from) ==
    IF from \in Executed(f)
    THEN IF j = 1 THEN from ELSE NthExecuted(f, j - 1, from + 1)
    ELSE NthExecuted(f, j, from + 1)

\* C28: the conversation sent with the streaming call of an attempt is the
\* prompt followed by one (function call, function response) pair for each
\* tool executed in that attempt, each call right before its own response,
\* in the order of the response; nothing of an earlier attempt is in it.
C28_ConversationOfOneAttempt ==
    \A r \in reqs :
        LET f == Top(r)
        IN JustOpened(f) =>
            /\ Len(f.contents) = 1 + 2 * Cardinality(Executed(f))
            /\ f.contents[1] = InitialContents[1]
            /\ \A j \in 1 .. Cardinality(Executed(f)) :
                LET name == f.calls[NthExecuted(f, j, 1)]
                IN /\ f.contents[2 * j] =
                        [role |-> "model", kind |-> "function_call",
                         name |-> name]
                   /\ f.contents[2 * j + 1] =
                        [role |-> "user", kind |-> "function_response",
                         name |-> name]

\* the stream of a later attempt was opened after two tools were executed
\* in that attempt, an earlier attempt having failed
C28_Witness ==
    \E r \in reqs :
        /\ JustOpened(Top(r))
        /\ Top(r).attempt >= 2
        /\ Cardinality(Executed(Top(r))) = 2
        /\ Len(Top(r).contents) = 5

(***************************************************************************)
(* The permits of the semaphore (checked under Spec).                      *)
(***************************************************************************)

\* the permits held between two steps: by the calls waiting for a tool
\* inside the "async with" of line 183 and by those sleeping inside the one
\* of line 233
PermitsHeld == Cardinality(InSection \cup Sleeping)

\* C29: permits are never leaked: the permits held and the permits free add
\* up to the capacity in every state, and once the call has ended, by
\* success, by an unexpected error or by the exhaustion raised in the
\* handler, all the permits are free again.
C29_PermitsConserved ==
    /\ permits + PermitsHeld = capacity
    /\ (\A r \in reqs : Ended(r)) => permits = capacity

\* the call has ended with the exception raised by _handle_rate_limit when
\* the chain was exhausted, and every permit is free
C29_Witness ==
    \E r \in reqs :
        /\ status[r] = "raised"
        /\ obs[r].exhausted
        /\ obs[r].cause = "rate_limit"
        /\ permits = capacity

(***************************************************************************)
(* Usage counts, the other selections and the statistics (checked under    *)
(* SpecPool).                                                              *)
(***************************************************************************)

SelectOps ==
    {"get_random_key", "get_least_used_key", "get_least_recently_used_key"}

\* the step is a selection that returned a key
SelectsNow ==
    /\ lastCall' # lastCall
    /\ lastCall'.op \in SelectOps
    /\ ~lastCall'.raised

\* a selection counts one use for the key it returns and leaves the other
\* counts and every cooldown alone
SelectCountsOne ==
    SelectsNow =>
        /\ \A k \in keys :
            key_usage_count'[k] =
                key_usage_count[k] + (IF k = lastCall'.key THEN 1 ELSE 0)
        /\ rate_limited_until' = rate_limited_until

\* C24 (as claimed): over any sequence of pool operations no usage count
\* ever decreases; it changes only by +1 for the key a selection returns,
\* and a selection leaves the other counts and every cooldown unchanged.
C24_UsageNeverDecreases ==
    [][/\ \A k \in keys : key_usage_count'[k] >= key_usage_count[k]
       /\ SelectCountsOne
       /\ ~SelectsNow => key_usage_count' = key_usage_count]_vars

\* the step is reset_usage_stats
ResetsNow == lastCall' # lastCall /\ lastCall'.op = "reset_usage_stats"

\* C24 (amended): a usage count decreases only by reset_usage_stats, which
\* sets every count to 0; otherwise it changes only by +1 for the key a
\* selection returns, and a selection leaves the other counts and every
\* cooldown unchanged.
C24_UsageNeverDecreasesButByReset ==
    [][/\ ~ResetsNow =>
            \A k \in keys : key_usage_count'[k] >= key_usage_count[k]
       /\ ResetsNow => \A k \in keys : key_usage_count'[k] = 0
       /\ SelectCountsOne
       /\ (~SelectsNow /\ ~ResetsNow) => key_usage_count' = key_usage_count]_vars

\* a selection has returned a key of a pool of several keys that had been
\* used before, after a key was marked
C24_Witness ==
    /\ lastCall.op \in SelectOps
    /\ Cardinality(keys) >= 2
    /\ lastCall.usage[lastCall.key] >= 1
    /\ key_usage_count[lastCall.key] = lastCall.usage[lastCall.key] + 1
    /\ \E j \in keys : j # lastCall.key /\ rate_limited_until[j] > 0

\* the last operation returned a key that is least, by `measure`, among the
\* keys whose cooldown had passed, or of least expiry when there was none
ReturnedLeast(measure) ==
    /\ ~lastCall.raised
    /\ lastCall.key \in keys
    /\ PassedAtCall # {} =>
          /\ lastCall.key \in PassedAtCall
          /\ \A j \in PassedAtCall : measure[lastCall.key] <= measure[j]
    /\ PassedAtCall = {} =>
          \A j \in keys : lastCall.until[lastCall.key] <= lastCall.until[j]

\* C25: get_least_used_key returns, among the keys whose cooldown has
\* passed, one whose usage count before the call is least, and
\* get_least_recently_used_key one whose last use is oldest; when no key is
\* available both return the key with the least rate_limited_until, as
\* get_random_key does.
C25_LeastUsedAndLeastRecent ==
    /\ lastCall.op = "get_least_used_key" => ReturnedLeast(lastCall.usage)
    /\ lastCall.op = "get_least_recently_used_key"
          => ReturnedLeast(lastCall.used)

\* get_least_used_key had the choice between keys of different usage
\* counts and returned the one used less, not the first of the pool
C25_Witness ==
    /\ lastCall.op = "get_least_used_key"
    /\ Cardinality(PassedAtCall) >= 2
    /\ \E j \in PassedAtCall :
          /\ j < lastCall.key
          /\ lastCall.usage[j] > lastCall.usage[lastCall.key]

\* C30 (as claimed): every dictionary get_key_stats returns agrees with a
\* selection made at the same instant: available_keys is the number of keys
\* a selection would take as available, available_keys and the entries of
\* rate_limited_keys add up to total_keys, and the call changes nothing of
\* the pool.
C30_StatsConsistent ==
    lastCall.op = "get_key_stats" =>
        /\ lastCall.stats.available_keys = Cardinality(PassedAtCall)
        /\ lastCall.stats.available_keys
              + Cardinality(lastCall.stats.rate_limited_keys)
                 = lastCall.stats.total_keys
        /\ lastCall.stats.total_keys = Cardinality(keys)
        /\ rate_limited_until = lastCall.until
        /\ key_usage_count = lastCall.usage
        /\ last_used_time = lastCall.used
====
